---- MODULE Spec2Model ----
(***************************************************************************)
(* Model of the esplora-cli command dispatcher (src/src/main.rs, fn main). *)
(*                                                                         *)
(* One invocation of the binary selects one command, parses its textual    *)
(* arguments, performs its client operation and prints the result.  The    *)
(* model starts at Cli::parse() (main.rs:65), which answers help and       *)
(* version requests and rejects unusable command lines itself, and then    *)
(* follows the match arm of the selected command statement by statement,   *)
(* one write to standard output at a time.  Standard output is std's       *)
(* line-buffered stream with a buffer of StdoutBufCapacity bytes: println! *)
(* hands it the text piece by piece, and each completed line is one write, *)
(* so a value that {:#?} prints on several lines is several writes; a      *)
(* line that does not fit the buffer (the hex text of a large transaction) *)
(* is written in pieces.  Cli::parse() writes the help text the same way,  *)
(* in several writes.  Standard output belongs to the environment: a write *)
(* is accepted, is refused, or has to wait until the reader takes it.      *)
(* What was refused out of the buffer stays there, println! panics (clap   *)
(* ignores the failure and stops writing), and when the process exits the  *)
(* buffer is written once more.                                            *)
(*                                                                         *)
(* Taken as given: standard error accepts every write; the client          *)
(* operation returns; a write takes all it is given or nothing; the lines  *)
(* that {:#?} gives for numbers, hashes and the records of the client      *)
(* library are shorter than the buffer.  The help text is scaled down to   *)
(* HelpWrites writes.                                                      *)
(*                                                                         *)
(* The same command line is run twice, one invocation after the other,     *)
(* against the same remote response, so that properties that compare two   *)
(* invocations can be stated; under MixedSpec the two invocations run      *)
(* command lines of their own.                                             *)
(*                                                                         *)
(* Text is a sequence of one-character strings.  The alphabet keeps one    *)
(* character per class the parsers distinguish: "1" is a decimal and a     *)
(* hexadecimal digit, "f" is a hexadecimal digit only, "+" is no digit of  *)
(* either kind but is the sign the integer parsers accept in front.        *)
(* Hashes are scaled down from 32 bytes to HashBytes bytes.                *)
(***************************************************************************)
EXTENDS Integers, Sequences, FiniteSets, TLC

\* Longest argument text enumerated.
MaxArgLen == 2
\* Longest block / history page the remote returns.
MaxTxs == 2
\* Number of writes the help text takes.
HelpWrites == 3

Runs == {1, 2}

Chars == {"1", "f", "+"}
IsHexChar(c) == c \in {"1", "f"}
IsDigitChar(c) == c = "1"

Text == UNION {[1..n -> Chars] : n \in 0..MaxArgLen}

\* Option<T>
None == [some |-> FALSE]
Some(v) == [some |-> TRUE, val |-> v]
\* Result<T, E>
Ok(v) == [ok |-> TRUE, val |-> v]
Err(e) == [ok |-> FALSE, err |-> e]

Reverse(s) == [i \in 1..Len(s) |-> s[Len(s) + 1 - i]]

----------------------------------------------------------------------------
(* Argument parsers *)

\* Bytes of a hash in this model (32 in bitcoin), and its hex length.
HashBytes == MaxArgLen \div 2
HashHexLen == 2 * HashBytes

\* hex text -> bytes; a byte is a pair of hex characters.
FromHex(s) ==
    IF Len(s) % 2 # 0 THEN Err("OddLengthString")
    ELSE IF \E i \in 1..Len(s) : ~IsHexChar(s[i]) THEN Err("InvalidChar")
    ELSE Ok([i \in 1..(Len(s) \div 2) |-> <<s[2 * i - 1], s[2 * i]>>])

\* id.parse().unwrap_or_default(): a malformed id becomes the all-default
\* hash instead of an error.
TxidFromStrOrDefault(s) ==
    IF Len(s) # HashHexLen THEN Ok([hash |-> <<>>])
    ELSE LET b == FromHex(s) IN
         IF b.ok THEN Ok([hash |-> Reverse(b.val)]) ELSE Ok([hash |-> <<>>])

\* <Txid as FromStr>::from_str / str::parse::<Txid>: exactly HashHexLen hex
\* characters, stored in reversed byte order.
TxidFromStr(s) ==
    IF Len(s) # HashHexLen THEN Err("InvalidLength")
    ELSE LET b == FromHex(s) IN
         IF b.ok THEN Ok([hash |-> Reverse(b.val)]) ELSE Err("InvalidChar")

\* str::parse::<BlockHash>: same rules as a Txid.
BlockHashFromStr(s) ==
    IF Len(s) # HashHexLen THEN Err("InvalidLength")
    ELSE LET b == FromHex(s) IN
         IF b.ok THEN Ok([hash |-> Reverse(b.val)]) ELSE Err("InvalidChar")

RECURSIVE DecimalValue(_)
DecimalValue(s) ==
    IF s = <<>> THEN 0
    ELSE 10 * DecimalValue(SubSeq(s, 1, Len(s) - 1))
         + (IF s[Len(s)] = "1" THEN 1 ELSE 0)

\* The longest run of the digit "1" that fits the integer type:
\* 1111111111 <= u32::MAX < 11111111111, and twenty ones <= u64::MAX <
\* twenty-one ones; usize is 64 bits wide.
UsizeDigits == 20
U64Digits == 20
U32Digits == 10

\* str::parse of an unsigned integer: an optional "+", then at least one
\* decimal digit, read left to right; each character is tested for being a
\* digit before the value is extended, and extending the value beyond the
\* type fails.
ParseInt(s, maxDigits) ==
    IF s = <<>> THEN Err("Empty")
    ELSE LET digits == IF s[1] = "+" THEN Tail(s) ELSE s IN
         IF digits = <<>> THEN Err("InvalidDigit")
         ELSE IF \E i \in 1..Len(digits) :
                    i <= maxDigits + 1 /\ ~IsDigitChar(digits[i])
              THEN Err("InvalidDigit")
         ELSE IF Len(digits) > maxDigits THEN Err("PosOverflow")
         ELSE Ok(DecimalValue(digits))

----------------------------------------------------------------------------
(* Transactions *)

\* OutPoint::null() (zero txid, vout = 0xffffffff), scaled to the byte "ff".
NullOutPoint == <<"f", "f">>

\* A transaction is its list of inputs, each input one byte naming its
\* previous output.
Flatten(bs) ==
    [i \in 1..(2 * Len(bs)) |-> bs[(i + 1) \div 2][2 - (i % 2)]]

\* bitcoin::consensus::encode::deserialize_hex::<Transaction>
DeserializeHex(s) ==
    LET b == FromHex(s) IN
    IF ~b.ok THEN Err(b.err)
    ELSE IF b.val = <<>> THEN Err("UnexpectedEof")
    ELSE Ok([input |-> b.val])

\* bitcoin::consensus::encode::serialize_hex
SerializeHex(tx) == Flatten(tx.input)

\* Transaction::is_coinbase: exactly one input, spending the null outpoint.
IsCoinbase(tx) == Len(tx.input) = 1 /\ tx.input[1] = NullOutPoint

\* Transaction::compute_txid: the hash of the serialization.
ComputeTxid(tx) == [hash |-> <<"sha256d", SerializeHex(tx)>>]

\* A piece of output text: its indentation level (four spaces each), its
\* tokens, and whether the newline follows.
Piece(n, t, e) == [indent |-> n, text |-> t, eol |-> e]
\* One line of output text.
Line(n, t) == Piece(n, t, TRUE)

\* {:#?} of a value that prints on one line: an integer, a hash.
Debug(v) == <<Line(0, <<v>>)>>

\* {:#?} of a String: the text between double quotes, on one line.
DebugString(s) == <<Line(0, <<"\"", s, "\"">>)>>

\* std's LineWriter for standard output: the size of its buffer in bytes.
StdoutBufCapacity == 1024

\* One write to standard output, of text x.  Buffered: the text is written
\* out of the buffer and stays there when the write is refused.  Direct:
\* the text is written past the buffer and is gone when the write is
\* refused.  Either: one or the other.
Buffered(x) == [out |-> x, kept |-> {TRUE}]
Direct(x) == [out |-> x, kept |-> {FALSE}]
Either(x) == [out |-> x, kept |-> {TRUE, FALSE}]

\* The writes of a text whose lines fit the buffer: every completed line is
\* written out of the buffer.
LineWrites(lines) == [i \in 1..Len(lines) |-> Buffered(lines[i])]

\* The writes of println!("{:#?}", s) for a String s of Len(s) bytes.  The
\* text arrives as the quote, s, the quote, the newline.  A piece that does
\* not fit what is left of the buffer has the buffer written first; a piece
\* as large as the buffer is written past it; the newline has the buffer
\* written.
StringWrites(s) ==
    LET q == "\"" IN
    IF Len(s) + 3 <= StdoutBufCapacity THEN LineWrites(DebugString(s))
    ELSE IF Len(s) + 2 = StdoutBufCapacity
    THEN <<Buffered(Piece(0, <<q, s, q>>, FALSE)),
           Buffered(Piece(0, <<>>, TRUE))>>
    ELSE IF Len(s) + 1 = StdoutBufCapacity
    THEN <<Buffered(Piece(0, <<q, s>>, FALSE)),
           Buffered(Piece(0, <<q>>, TRUE))>>
    ELSE <<Buffered(Piece(0, <<q>>, FALSE)),
           Direct(Piece(0, <<s>>, FALSE)),
           Buffered(Piece(0, <<q>>, TRUE))>>

\* The lines of a value nested in another under {:#?}: indented one level,
\* with a comma after the last.
Nested(lines) ==
    [i \in 1..Len(lines) |->
        Line(lines[i].indent + 1,
             IF i = Len(lines) THEN Append(lines[i].text, ",")
             ELSE lines[i].text)]

\* {:#?} of a struct of the client library (derive(Debug)): the opening
\* line, one line per field, the closing line.
DebugStruct(v) ==
    <<Line(0, <<"Record", "{">>),
      Line(1, <<"name:", v, ",">>),
      Line(1, <<"confirmed:", TRUE, ",">>),
      Line(0, <<"}">>)>>

\* {:#?} of an Option of such a struct: "None", or "Some(", the value, ")".
DebugOption(o) ==
    IF ~o.some THEN <<Line(0, <<"None">>)>>
    ELSE <<Line(0, <<"Some(">>)>> \o Nested(DebugStruct(o.val))
         \o <<Line(0, <<")">>)>>

RECURSIVE DebugElements(_)
\* The elements of a Vec under {:#?}, each nested.
DebugElements(s) ==
    IF s = <<>> THEN <<>>
    ELSE Nested(DebugStruct(Head(s))) \o DebugElements(Tail(s))

\* {:#?} of a Vec of such structs: "[]", or "[", the elements, "]".
DebugVec(s) ==
    IF s = <<>> THEN <<Line(0, <<"[]">>)>>
    ELSE <<Line(0, <<"[">>)>> \o DebugElements(s) \o <<Line(0, <<"]">>)>>

----------------------------------------------------------------------------
(* The command line and the remote *)

\* Address arguments: the texts in Addresses are addresses, "bogus" is not.
Addresses == {"addr1", "addr2"}
AddressTexts == Addresses \cup {"bogus"}
\* <Address<NetworkUnchecked> as FromStr>::from_str, run by Cli::parse()
AddressFromStr(t) ==
    IF t \in Addresses THEN Ok([unchecked |-> t]) ELSE Err("invalid address")
\* address.assume_checked().script_pubkey()
ScriptPubkey(a) == <<"spk", a.unchecked>>

OptText == {None} \cup {Some(t) : t \in Text}

\* Command lines for which Cli::parse() does not return a Commands value:
\* --help, --version, and lines it rejects (missing argument, unknown
\* subcommand).
NoCommand == {"Help", "Version", "Usage"}

\* What Cli::parse() writes to standard output for --help and --version.
\* The help text goes out in several writes; whether a refused one is
\* still in the buffer depends on where the pieces of clap's text end.  The
\* version is one line, written past the empty buffer.
HelpOutput(name) ==
    IF name = "Help"
    THEN [i \in 1..HelpWrites |-> Either(Line(0, <<"help", i>>))]
    ELSE <<Direct(Line(0, <<"version">>))>>

\* The command line: the subcommand of enum Commands with its arguments as
\* given, or one of NoCommand.
CommandLines ==
    [name : {"GetTx", "GetTxInfo", "GetTxStatus", "GetMerkleProof",
             "GetMerkleBlock"}, id : Text]
    \cup [name : {"GetTxAtBlockIndex"}, block_hash : Text, index : Text]
    \cup [name : {"GetHeaderByHash", "GetBlockStatus", "GetBlock"},
          block_hash : Text]
    \cup [name : {"GetOutputStatus"}, id : Text, index : Text]
    \cup [name : {"Broadcast"}, transaction_hex : Text]
    \cup [name : {"GetHeight", "GetTipHash", "GetFeeEstimates"}]
    \cup [name : {"GetBlockHash"}, height : Text]
    \cup [name : {"GetScriptHashTxs"}, address : AddressTexts,
          last_seen : OptText]
    \cup [name : {"GetBlocks"}, height : OptText]
    \cup [name : NoCommand]

\* Values the remote can hold.
TxPool == {[input |-> <<NullOutPoint>>],
           [input |-> << <<"1", "f">> >>],
           [input |-> <<NullOutPoint, <<"1", "1">> >>]}
TxidPool == {ComputeTxid(t) : t \in TxPool}
\* Transactions whose hex text does not fit the buffer of standard output
\* together with its quotes and the newline.
LongTxPool ==
    {[input |-> [i \in 1..n |-> <<"1", "1">>]] :
        n \in {(StdoutBufCapacity \div 2) - 1, StdoutBufCapacity \div 2}}
\* Records whose fields the dispatcher never reads (TxStatus, BlockHeader,
\* BlockStatus, MerkleProof, MerkleBlock, OutputStatus, Tx, BlockSummary).
Records == {"rec1", "rec2"}
SeqUpTo(S, n) == UNION {[1..k -> S] : k \in 0..n}
\* fee estimates: confirmation target -> fee rate
FeeMaps == UNION {[T -> {10, 20}] : T \in SUBSET {2, 6}}

OkOpt(S) == {Ok(None)} \cup {Ok(Some(v)) : v \in S}

\* What the client operation of each command can return.
Responses(name) ==
    IF name \in NoCommand THEN {Ok("unit")}
    ELSE
    {Err("Transport")} \cup
    CASE name = "GetTx" -> OkOpt(TxPool \cup LongTxPool)
      [] name \in {"GetTxInfo", "GetOutputStatus", "GetMerkleProof",
                   "GetMerkleBlock"} -> OkOpt(Records)
      [] name = "GetTxAtBlockIndex" -> OkOpt(TxidPool)
      [] name \in {"GetTxStatus", "GetHeaderByHash", "GetBlockStatus"} ->
            {Ok(v) : v \in Records}
      [] name = "GetBlock" -> OkOpt(SeqUpTo(TxPool, MaxTxs))
      [] name = "Broadcast" -> {Ok("unit")}
      [] name = "GetHeight" -> {Ok(h) : h \in {0, 1}}
      [] name \in {"GetTipHash", "GetBlockHash"} ->
            {Ok([hash |-> <<b>>]) : b \in {<<"1", "1">>, <<"f", "1">>}}
      [] name = "GetFeeEstimates" -> {Ok(m) : m \in FeeMaps}
      [] name = "GetScriptHashTxs" ->
            {Ok(p) : p \in SeqUpTo([txid : TxidPool], MaxTxs)}
      [] name = "GetBlocks" -> {Ok(p) : p \in SeqUpTo(Records, 1)}

----------------------------------------------------------------------------
(* State *)

VARIABLES
    cmd,     \* per invocation: the command line
    remote,  \* per invocation: what its client operation returns
    pc,      \* per invocation: "cli", "help", "start", "call", "print",
             \* "exit", "done"
    local,   \* per invocation: the arm's local variables; while printing,
             \* the writes still to be made; while exiting, the text left
             \* in the buffer of standard output
    calls,   \* per invocation: the client operations invoked so far
    stdout,  \* per invocation: text written to standard output, write by
             \* write
    stderr,  \* per invocation: messages written to standard error
    status,  \* per invocation: "running", "ok", "err", "panic", "help",
             \* "usage"
    exit,    \* per invocation: the exit code, -1 while running
    blocked  \* per invocation: standard output is full, a write waits

vars == <<cmd, remote, pc, local, calls, stdout, stderr, status, exit, blocked>>

\* Both invocations at the top of main, nothing done yet.
Fresh ==
    /\ pc = [r \in Runs |-> "cli"]
    /\ local = [r \in Runs |-> <<>>]
    /\ calls = [r \in Runs |-> <<>>]
    /\ stdout = [r \in Runs |-> <<>>]
    /\ stderr = [r \in Runs |-> <<>>]
    /\ status = [r \in Runs |-> "running"]
    /\ exit = [r \in Runs |-> -1]
    /\ blocked = [r \in Runs |-> FALSE]

\* The same command line is invoked twice, against the same remote.
Init ==
    /\ \E c \in CommandLines : \E a \in Responses(c.name) :
          cmd = [r \in Runs |-> c] /\ remote = [r \in Runs |-> a]
    /\ Fresh

\* The invocations run one after the other.
Turn(r) == pc[r] # "done" /\ \A q \in Runs : q < r => pc[q] = "done"

----------------------------------------------------------------------------
(* Leaving main *)

Upd(f, r, v) == [f EXCEPT ![r] = v]

\* main() swallows the error (returns () after reporting it): exit code 0.
ExitCodeErrSwallowed(st) ==
    CASE st \in {"ok", "help"} -> 0
      [] st = "err" -> 0
      [] st = "usage" -> 2
      [] st = "panic" -> 101

\* The process exit code: main returns Ok(()) -> 0, main returns Err -> 1,
\* a panic unwinds out of main -> 101; Cli::parse() exits with 0 after help
\* or version and with 2 after rejecting the command line.
ExitCode(st) ==
    CASE st \in {"ok", "help"} -> 0
      [] st = "err" -> 1
      [] st = "usage" -> 2
      [] st = "panic" -> 101

\* The invocation moves to stage p with locals l and client calls c.
Advance(r, p, l, c) ==
    /\ pc' = Upd(pc, r, p)
    /\ local' = Upd(local, r, l)
    /\ calls' = Upd(calls, r, c)
    /\ UNCHANGED <<cmd, remote, stdout, stderr, status, exit, blocked>>

\* The invocation ends with client calls c, output out and status st; msg is
\* what is written to standard error (<<>> for nothing).  Its locals are
\* gone.
Leave(r, c, out, st, msg) ==
    /\ pc' = Upd(pc, r, "done")
    /\ calls' = Upd(calls, r, c)
    /\ stdout' = Upd(stdout, r, out)
    /\ status' = Upd(status, r, st)
    /\ exit' = Upd(exit, r, ExitCode(st))
    /\ stderr' = Upd(stderr, r, stderr[r] \o msg)
    /\ local' = Upd(local, r, <<>>)
    /\ UNCHANGED <<cmd, remote, blocked>>

\* `?` on an Err: main returns the error, the runtime prints "Error: ...".
ReturnErr(r, c, e) == Leave(r, c, stdout[r], "err", << <<"Error", e>> >>)
\* unwrap() on an Err: the thread panics, the panic hook prints the message.
Panic(r, c, e) == Leave(r, c, stdout[r], "panic", << <<"panicked", e>> >>)

\* The arm goes on to make the writes of its println! statements and then
\* reaches Ok(()); with nothing to print it reaches Ok(()) at once.
ThenWrite(r, c, writes) ==
    IF writes = <<>> THEN Leave(r, c, stdout[r], "ok", <<>>)
    ELSE Advance(r, "print", writes, c)

\* The same for a text whose lines fit the buffer.
ThenPrint(r, c, lines) == ThenWrite(r, c, LineWrites(lines))

\* The next write to standard output: it waits while standard output is
\* full; it is accepted, and after the last one the invocation ends with
\* status done; or it is refused: what was written out of the buffer stays
\* there, nothing more of the text is written, msg goes to standard error
\* and the process goes on to exit with status failed.
Write(r, done, failed, msg) ==
    /\ ~blocked[r]
    /\ LET w == Head(local[r]) IN
       \/ IF Len(local[r]) = 1
          THEN Leave(r, calls[r], Append(stdout[r], w.out), done, <<>>)
          ELSE /\ stdout' = Upd(stdout, r, Append(stdout[r], w.out))
               /\ local' = Upd(local, r, Tail(local[r]))
               /\ UNCHANGED <<cmd, remote, pc, calls, stderr, status, exit,
                              blocked>>
       \/ \E k \in w.kept :
             /\ pc' = Upd(pc, r, "exit")
             /\ local' = Upd(local, r, IF k THEN <<w.out>> ELSE <<>>)
             /\ status' = Upd(status, r, failed)
             /\ stderr' = Upd(stderr, r, stderr[r] \o msg)
             /\ UNCHANGED <<cmd, remote, calls, stdout, exit, blocked>>

\* println!: one write of its text; after the last one main returns
\* Ok(()); on a refused write println! panics, the rest of the text never
\* formatted, and the panic hook prints the message.
Println(r) ==
    /\ pc[r] = "print"
    /\ Write(r, "ok", "panic", << <<"panicked", "failed printing to stdout">> >>)

\* The way out of the process after a refused write (the runtime around
\* main after a panic of println!; clap's exit after help or version): what
\* the buffer of standard output still holds is written again, and that
\* write waits, is accepted or is refused like any other; then the process
\* exits.  (On every other way out the buffer is empty.)
Cleanup(r) ==
    /\ Turn(r) /\ pc[r] = "exit"
    /\ IF local[r] = <<>> THEN Leave(r, calls[r], stdout[r], status[r], <<>>)
       ELSE /\ ~blocked[r]
            /\ \/ Leave(r, calls[r], stdout[r] \o local[r], status[r], <<>>)
               \/ Leave(r, calls[r], stdout[r], status[r], <<>>)

\* A failed request is sent a second time.
ClientCallRetry(r, op, a) ==
    IF remote[r].ok THEN Append(calls[r], [op |-> op, args |-> a])
    ELSE calls[r] \o <<[op |-> op, args |-> a], [op |-> op, args |-> a]>>

\* The client operation op is invoked with arguments a.
ClientCall(r, op, a) == Append(calls[r], [op |-> op, args |-> a])

----------------------------------------------------------------------------
(* Cli::parse() *)

\* The invocation is the one running and is about to write to standard
\* output: in println!, in Cli::parse(), or on exit.
Writing(r) ==
    /\ Turn(r)
    /\ \/ pc[r] \in {"print", "help"}
       \/ pc[r] = "exit" /\ local[r] # <<>>

\* --help and --version print to standard output, write by write, and exit
\* with 0; a refused write ends the printing and is otherwise ignored.  A
\* command line that is rejected (also for an address that does not parse)
\* is reported on standard error with exit code 2; otherwise main goes on
\* with the Commands value.
CliParse(r) ==
    /\ Turn(r)
    /\ \/ /\ pc[r] = "cli"
          /\ IF cmd[r].name \in {"Help", "Version"}
             THEN Advance(r, "help", HelpOutput(cmd[r].name), calls[r])
             ELSE IF cmd[r].name = "Usage"
             THEN Leave(r, calls[r], stdout[r], "usage",
                        << <<"error", "usage">> >>)
             ELSE IF cmd[r].name = "GetScriptHashTxs"
                     /\ ~AddressFromStr(cmd[r].address).ok
             THEN Leave(r, calls[r], stdout[r], "usage",
                        << <<"error", AddressFromStr(cmd[r].address).err>> >>)
             ELSE Advance(r, "start", <<>>, calls[r])
       \/ /\ pc[r] = "help"
          /\ Write(r, "help", "help", <<>>)

----------------------------------------------------------------------------
(* The match arms of main *)

\* Arms of the shape: parse one argument with `?`, call the client with
\* `?`, print the returned value with {:#?}; text is what {:#?} gives for
\* it (read only once the call has returned Ok).
ParseCallPrint(r, parsed, op, text) ==
    \/ /\ pc[r] = "start"
       /\ IF parsed.ok THEN Advance(r, "call", <<parsed.val>>, calls[r])
          ELSE ReturnErr(r, calls[r], parsed.err)
    \/ /\ pc[r] = "call"
       /\ LET c == ClientCall(r, op, local[r]) IN
          IF remote[r].ok THEN ThenPrint(r, c, text)
          ELSE ReturnErr(r, c, remote[r].err)
    \/ Println(r)

\* GetTx printing the Option before turning None into an error.
GetTxPrintFirst(r) ==
    /\ cmd[r].name = "GetTx" /\ Turn(r)
    /\ \/ /\ pc[r] = "start"
          /\ LET txid == TxidFromStr(cmd[r].id) IN
             IF txid.ok THEN Advance(r, "call", <<txid.val>>, calls[r])
             ELSE ReturnErr(r, calls[r], txid.err)
       \/ /\ pc[r] = "call"
          /\ LET c == ClientCall(r, "get_tx", local[r]) IN
             IF ~remote[r].ok THEN ReturnErr(r, c, remote[r].err)
             ELSE IF ~remote[r].val.some
                  THEN Leave(r, c, stdout[r] \o DebugOption(None), "err",
                             << <<"Error", "None">> >>)
             ELSE ThenWrite(r, c, StringWrites(SerializeHex(remote[r].val.val)))
       \/ Println(r)

GetTx(r) ==
    /\ cmd[r].name = "GetTx" /\ Turn(r)
    /\ \/ /\ pc[r] = "start"
          /\ LET txid == TxidFromStr(cmd[r].id) IN
             IF txid.ok THEN Advance(r, "call", <<txid.val>>, calls[r])
             ELSE ReturnErr(r, calls[r], txid.err)
       \/ /\ pc[r] = "call"
          /\ LET c == ClientCall(r, "get_tx", local[r]) IN
             IF ~remote[r].ok THEN ReturnErr(r, c, remote[r].err)
             ELSE IF ~remote[r].val.some THEN ReturnErr(r, c, "None")
             ELSE ThenWrite(r, c, StringWrites(SerializeHex(remote[r].val.val)))
       \/ Println(r)

GetTxInfo(r) ==
    /\ cmd[r].name = "GetTxInfo" /\ Turn(r)
    /\ \/ /\ pc[r] = "start"
          /\ LET txid == TxidFromStr(cmd[r].id) IN
             IF txid.ok THEN Advance(r, "call", <<txid.val>>, calls[r])
             ELSE ReturnErr(r, calls[r], txid.err)
       \/ /\ pc[r] = "call"
          /\ LET c == ClientCall(r, "get_tx_info", local[r]) IN
             IF ~remote[r].ok THEN ReturnErr(r, c, remote[r].err)
             ELSE IF ~remote[r].val.some THEN ReturnErr(r, c, "None")
             ELSE ThenPrint(r, c, DebugStruct(remote[r].val.val))
       \/ Println(r)

GetTxAtBlockIndex(r) ==
    /\ cmd[r].name = "GetTxAtBlockIndex" /\ Turn(r)
    /\ \/ /\ pc[r] = "start"
          /\ LET hash == BlockHashFromStr(cmd[r].block_hash)
                 i == ParseInt(cmd[r].index, UsizeDigits) IN
             IF ~hash.ok THEN ReturnErr(r, calls[r], hash.err)
             ELSE IF ~i.ok THEN ReturnErr(r, calls[r], i.err)
             ELSE Advance(r, "call", <<hash.val, i.val>>, calls[r])
       \/ /\ pc[r] = "call"
          /\ LET c == ClientCall(r, "get_txid_at_block_index", local[r]) IN
             IF ~remote[r].ok THEN ReturnErr(r, c, remote[r].err)
             ELSE IF ~remote[r].val.some THEN ReturnErr(r, c, "None")
             ELSE ThenPrint(r, c, Debug(remote[r].val.val))
       \/ Println(r)

GetTxStatus(r) ==
    /\ cmd[r].name = "GetTxStatus" /\ Turn(r)
    /\ ParseCallPrint(r, TxidFromStr(cmd[r].id), "get_tx_status",
                      DebugStruct(remote[r].val))

GetHeaderByHash(r) ==
    /\ cmd[r].name = "GetHeaderByHash" /\ Turn(r)
    /\ ParseCallPrint(r, BlockHashFromStr(cmd[r].block_hash),
                      "get_header_by_hash", DebugStruct(remote[r].val))

GetBlockStatus(r) ==
    /\ cmd[r].name = "GetBlockStatus" /\ Turn(r)
    /\ ParseCallPrint(r, BlockHashFromStr(cmd[r].block_hash),
                      "get_block_status", DebugStruct(remote[r].val))

RECURSIVE BlockLinesAll(_)
\* The loop without the is_coinbase test.
BlockLinesAll(txdata) ==
    IF txdata = <<>> THEN <<>>
    ELSE Debug(ComputeTxid(Head(txdata))) \o BlockLinesAll(Tail(txdata))

RECURSIVE BlockLines(_)
\* for tx in &block.txdata { if !tx.is_coinbase() { println!(txid) } }:
\* the lines the loop prints, in order.
BlockLines(txdata) ==
    IF txdata = <<>> THEN <<>>
    ELSE (IF ~IsCoinbase(Head(txdata))
          THEN Debug(ComputeTxid(Head(txdata))) ELSE <<>>)
         \o BlockLines(Tail(txdata))

GetBlock(r) ==
    /\ cmd[r].name = "GetBlock" /\ Turn(r)
    /\ \/ /\ pc[r] = "start"
          /\ LET hash == BlockHashFromStr(cmd[r].block_hash) IN
             IF hash.ok THEN Advance(r, "call", <<hash.val>>, calls[r])
             ELSE ReturnErr(r, calls[r], hash.err)
       \/ /\ pc[r] = "call"
          /\ LET c == ClientCall(r, "get_block_by_hash", local[r]) IN
             IF ~remote[r].ok THEN ReturnErr(r, c, remote[r].err)
             ELSE IF remote[r].val.some
                  THEN ThenPrint(r, c, BlockLines(remote[r].val.val))
             ELSE ThenPrint(r, c, <<>>)
       \/ Println(r)

GetMerkleProof(r) ==
    /\ cmd[r].name = "GetMerkleProof" /\ Turn(r)
    /\ ParseCallPrint(r, TxidFromStr(cmd[r].id), "get_merkle_proof",
                      DebugOption(remote[r].val))

GetMerkleBlock(r) ==
    /\ cmd[r].name = "GetMerkleBlock" /\ Turn(r)
    /\ ParseCallPrint(r, TxidFromStr(cmd[r].id), "get_merkle_block",
                      DebugOption(remote[r].val))

GetOutputStatus(r) ==
    /\ cmd[r].name = "GetOutputStatus" /\ Turn(r)
    /\ \/ /\ pc[r] = "start"
          /\ LET tx_id == TxidFromStr(cmd[r].id)
                 i == ParseInt(cmd[r].index, U64Digits) IN
             IF ~tx_id.ok THEN ReturnErr(r, calls[r], tx_id.err)
             ELSE IF ~i.ok THEN ReturnErr(r, calls[r], i.err)
             ELSE Advance(r, "call", <<tx_id.val, i.val>>, calls[r])
       \/ /\ pc[r] = "call"
          /\ LET c == ClientCall(r, "get_output_status", local[r]) IN
             IF ~remote[r].ok THEN ReturnErr(r, c, remote[r].err)
             ELSE IF ~remote[r].val.some THEN ReturnErr(r, c, "None")
             ELSE ThenPrint(r, c, DebugStruct(remote[r].val.val))
       \/ Println(r)

\* Broadcast with the result of client.broadcast discarded (no `?`).
BroadcastIgnoringError(r) ==
    /\ cmd[r].name = "Broadcast" /\ Turn(r)
    /\ \/ /\ pc[r] = "start"
          /\ LET tx == DeserializeHex(cmd[r].transaction_hex) IN
             IF tx.ok THEN Advance(r, "call", <<tx.val>>, calls[r])
             ELSE ReturnErr(r, calls[r], tx.err)
       \/ /\ pc[r] = "call"
          /\ LET c == ClientCall(r, "broadcast", local[r]) IN
             ThenPrint(r, c, <<>>)

Broadcast(r) ==
    /\ cmd[r].name = "Broadcast" /\ Turn(r)
    /\ \/ /\ pc[r] = "start"
          /\ LET tx == DeserializeHex(cmd[r].transaction_hex) IN
             IF tx.ok THEN Advance(r, "call", <<tx.val>>, calls[r])
             ELSE ReturnErr(r, calls[r], tx.err)
       \/ /\ pc[r] = "call"
          /\ LET c == ClientCall(r, "broadcast", local[r]) IN
             IF remote[r].ok THEN ThenPrint(r, c, <<>>)
             ELSE ReturnErr(r, c, remote[r].err)

\* Arms without arguments: call the client with `?`, print with {:#?}.
CallPrint(r, op) ==
    \/ /\ pc[r] = "start"
       /\ LET c == ClientCall(r, op, <<>>) IN
          IF remote[r].ok THEN ThenPrint(r, c, Debug(remote[r].val))
          ELSE ReturnErr(r, c, remote[r].err)
    \/ Println(r)

GetHeight(r) ==
    /\ cmd[r].name = "GetHeight" /\ Turn(r)
    /\ CallPrint(r, "get_height")

GetTipHash(r) ==
    /\ cmd[r].name = "GetTipHash" /\ Turn(r)
    /\ CallPrint(r, "get_tip_hash")

GetBlockHash(r) ==
    /\ cmd[r].name = "GetBlockHash" /\ Turn(r)
    /\ ParseCallPrint(r, ParseInt(cmd[r].height, U32Digits), "get_block_hash",
                      Debug(remote[r].val))

\* The orders in which a HashMap with key set K can be iterated.
IterationOrders(K) ==
    {o \in [1..Cardinality(K) -> K] : \A i, j \in DOMAIN o : o[i] = o[j] => i = j}

\* {:#?} of the HashMap<u16, f64> returned by get_fee_estimates, with its
\* entries in iteration order o: "{}" when empty, else "{", one line per
\* entry, "}".
FeeLines(m, o) ==
    IF DOMAIN m = {} THEN <<Line(0, <<"{}">>)>>
    ELSE <<Line(0, <<"{">>)>>
         \o [i \in DOMAIN o |-> Line(1, <<o[i], ":", m[o[i]], ",">>)]
         \o <<Line(0, <<"}">>)>>

\* get_fee_estimates returns a std HashMap, whose iteration order follows
\* the hasher seed the process draws at start-up: the order of the printed
\* entries is any order.  The one println! writes the text line by line.
GetFeeEstimates(r) ==
    /\ cmd[r].name = "GetFeeEstimates" /\ Turn(r)
    /\ \/ /\ pc[r] = "start"
          /\ LET c == ClientCall(r, "get_fee_estimates", <<>>) IN
             IF remote[r].ok
             THEN \E o \in IterationOrders(DOMAIN remote[r].val) :
                     ThenPrint(r, c, FeeLines(remote[r].val, o))
             ELSE ReturnErr(r, c, remote[r].err)
       \/ Println(r)

\* The cursor is dropped: None is passed whatever last_seen holds.
LastTxidDropped(last_seen) ==
    IF ~last_seen.some THEN Ok(None)
    ELSE LET t == TxidFromStr(last_seen.val) IN
         IF t.ok THEN Ok(None) ELSE Err(t.err)

\* last_seen.map(|s| Txid::from_str(&s).unwrap()); Err stands for the
\* unwrap that panics.
LastTxid(last_seen) ==
    IF ~last_seen.some THEN Ok(None)
    ELSE LET t == TxidFromStr(last_seen.val) IN
         IF t.ok THEN Ok(Some(t.val)) ELSE Err(t.err)

\* for tx in txs { println!("{:#?}", tx.txid) }: the lines the loop prints.
PageLines(txs) == [i \in 1..Len(txs) |-> Debug(txs[i].txid)[1]]

GetScriptHashTxs(r) ==
    /\ cmd[r].name = "GetScriptHashTxs" /\ Turn(r)
    /\ \/ /\ pc[r] = "start"
          /\ LET last_txid == LastTxid(cmd[r].last_seen)
                 addr == AddressFromStr(cmd[r].address).val IN
             IF last_txid.ok
             THEN Advance(r, "call", <<ScriptPubkey(addr), last_txid.val>>,
                          calls[r])
             ELSE Panic(r, calls[r], last_txid.err)
       \/ /\ pc[r] = "call"
          /\ LET c == ClientCall(r, "scripthash_txs", local[r]) IN
             IF remote[r].ok THEN ThenPrint(r, c, PageLines(remote[r].val))
             ELSE ReturnErr(r, c, remote[r].err)
       \/ Println(r)

\* height.map(|s| s.parse::<u32>().unwrap()); Err stands for the unwrap
\* that panics.
OptHeight(height) ==
    IF ~height.some THEN Ok(None)
    ELSE LET h == ParseInt(height.val, U32Digits) IN
         IF h.ok THEN Ok(Some(h.val)) ELSE Err(h.err)

GetBlocks(r) ==
    /\ cmd[r].name = "GetBlocks" /\ Turn(r)
    /\ \/ /\ pc[r] = "start"
          /\ LET height == OptHeight(cmd[r].height) IN
             IF height.ok THEN Advance(r, "call", <<height.val>>, calls[r])
             ELSE Panic(r, calls[r], height.err)
       \/ /\ pc[r] = "call"
          /\ LET c == ClientCall(r, "get_blocks", local[r]) IN
             IF remote[r].ok THEN ThenPrint(r, c, DebugVec(remote[r].val))
             ELSE ReturnErr(r, c, remote[r].err)
       \/ Println(r)

----------------------------------------------------------------------------
(* Standard output *)

\* The reader stops taking output: the next write has to wait.
StdoutFills(r) ==
    /\ Writing(r) /\ ~blocked[r]
    /\ blocked' = Upd(blocked, r, TRUE)
    /\ UNCHANGED <<cmd, remote, pc, local, calls, stdout, stderr, status, exit>>

\* The reader takes output again.
StdoutDrains(r) ==
    /\ Writing(r) /\ blocked[r]
    /\ blocked' = Upd(blocked, r, FALSE)
    /\ UNCHANGED <<cmd, remote, pc, local, calls, stdout, stderr, status, exit>>

----------------------------------------------------------------------------
(* Specifications *)

\* main: Cli::parse(), then match cli.command { ... }, and the runtime
\* around it.
Program ==
    \E r \in Runs :
        \/ CliParse(r)
        \/ Cleanup(r)
        \/ GetTx(r)
        \/ GetTxInfo(r)
        \/ GetTxAtBlockIndex(r)
        \/ GetTxStatus(r)
        \/ GetHeaderByHash(r)
        \/ GetBlockStatus(r)
        \/ GetBlock(r)
        \/ GetMerkleProof(r)
        \/ GetMerkleBlock(r)
        \/ GetOutputStatus(r)
        \/ Broadcast(r)
        \/ GetHeight(r)
        \/ GetTipHash(r)
        \/ GetBlockHash(r)
        \/ GetFeeEstimates(r)
        \/ GetScriptHashTxs(r)
        \/ GetBlocks(r)

\* What the reader of standard output does.
Environment == \E r \in Runs : StdoutFills(r) \/ StdoutDrains(r)

Next == Program \/ Environment

Spec == Init /\ [][Next]_vars

\* main runs whenever it can: a statement that is not waiting is executed,
\* and a write that waits goes on once standard output takes it, however
\* often it had to wait before.  Nothing obliges the reader to take output.
FairSpec == Init /\ [][Next]_vars /\ SF_vars(Program)

----------------------------------------------------------------------------
(* Two different invocations *)

\* Cli::parse() returns a Commands value for command line c.
Selected(c) == c.name \notin NoCommand
CliAccepts(c) ==
    Selected(c) /\ (c.name = "GetScriptHashTxs" => c.address \in Addresses)

WellFormedHash(s) == Len(s) = HashHexLen /\ \A i \in 1..Len(s) : IsHexChar(s[i])
WellFormedInt(s, maxDigits) ==
    /\ s # <<>>
    /\ LET digits == IF s[1] = "+" THEN Tail(s) ELSE s IN
       /\ digits # <<>> /\ Len(digits) <= maxDigits
       /\ \A i \in 1..Len(digits) : IsDigitChar(digits[i])
WellFormedTxHex(s) ==
    s # <<>> /\ Len(s) % 2 = 0 /\ \A i \in 1..Len(s) : IsHexChar(s[i])

\* Every argument of command line c is well formed.
ArgsWellFormed(c) ==
    CASE c.name \in {"GetTx", "GetTxInfo", "GetTxStatus", "GetMerkleProof",
                     "GetMerkleBlock"} -> WellFormedHash(c.id)
      [] c.name = "GetTxAtBlockIndex" ->
            WellFormedHash(c.block_hash) /\ WellFormedInt(c.index, UsizeDigits)
      [] c.name \in {"GetHeaderByHash", "GetBlockStatus", "GetBlock"} ->
            WellFormedHash(c.block_hash)
      [] c.name = "GetOutputStatus" ->
            WellFormedHash(c.id) /\ WellFormedInt(c.index, U64Digits)
      [] c.name = "Broadcast" -> WellFormedTxHex(c.transaction_hex)
      [] c.name = "GetBlockHash" -> WellFormedInt(c.height, U32Digits)
      [] c.name = "GetScriptHashTxs" ->
            /\ c.address \in Addresses
            /\ c.last_seen.some => WellFormedHash(c.last_seen.val)
      [] c.name = "GetBlocks" ->
            c.height.some => WellFormedInt(c.height.val, U32Digits)
      [] c.name = "Usage" -> FALSE
      [] OTHER -> TRUE

\* The commands whose result is optional and that turn the result into
\* what they print: GetTx, GetTxInfo, GetTxAtBlockIndex and GetOutputStatus
\* with ok_or, GetBlock with `if let Some`.
OptionalResultCommands ==
    {"GetTx", "GetTxInfo", "GetTxAtBlockIndex", "GetOutputStatus", "GetBlock"}

\* Two invocations, each with a command and well-formed arguments and a
\* remote response of its own; the first is of a command with an optional
\* result, the second of any command.
MixedInit ==
    /\ \E c1, c2 \in {c \in CommandLines : Selected(c) /\ ArgsWellFormed(c)} :
         \E a1 \in Responses(c1.name), a2 \in Responses(c2.name) :
            /\ c1.name \in OptionalResultCommands
            /\ cmd = [r \in Runs |-> IF r = 1 THEN c1 ELSE c2]
            /\ remote = [r \in Runs |-> IF r = 1 THEN a1 ELSE a2]
    /\ Fresh

MixedSpec == MixedInit /\ [][Next]_vars

----------------------------------------------------------------------------
(* Properties *)

Done(r) == pc[r] = "done"

\* A println! of invocation r was refused and panicked.
PrintFailed(r) ==
    /\ status[r] = "panic"
    /\ \E i \in 1..Len(stderr[r]) :
          stderr[r][i] = <<"panicked", "failed printing to stdout">>

IsPrefix(s, t) == Len(s) <= Len(t) /\ s = SubSeq(t, 1, Len(s))

\* C1: an invocation with a malformed argument never invokes a client
\* operation, and when it has ended it has ended in a failure.
C1_MalformedArgumentNoCall ==
    \A r \in Runs :
        ~ArgsWellFormed(cmd[r]) =>
            /\ calls[r] = <<>>
            /\ Done(r) => status[r] \notin {"ok", "help"} /\ exit[r] # 0

C1_Witness ==
    \E r \in Runs :
        /\ cmd[r].name = "Broadcast"
        /\ ~WellFormedTxHex(cmd[r].transaction_hex)
        /\ Done(r) /\ status[r] = "err" /\ calls[r] = <<>>

\* Invocation r has ended after its client operation reported the resource
\* absent.
AbsentDone(r) ==
    /\ cmd[r].name \in OptionalResultCommands
    /\ Done(r) /\ calls[r] # <<>> /\ remote[r] = Ok(None)

\* C2: no two commands with an optional result differ in whether an absent
\* result is a success or a failure.
C2_UniformNotFound ==
    \A r1, r2 \in Runs :
        AbsentDone(r1) /\ AbsentDone(r2) => status[r1] = status[r2]

\* C3: at most one client operation per invocation, and exactly one once an
\* invocation of a command whose arguments all parse has ended.
C3_ExactlyOneCall ==
    \A r \in Runs :
        /\ Len(calls[r]) <= 1
        /\ Done(r) /\ Selected(cmd[r]) /\ ArgsWellFormed(cmd[r]) =>
              Len(calls[r]) = 1

C3_Witness ==
    \E r \in Runs :
        /\ Done(r) /\ Selected(cmd[r]) /\ ArgsWellFormed(cmd[r])
        /\ ~remote[r].ok /\ status[r] = "err" /\ Len(calls[r]) = 1

\* The commands that report an absent resource as the error "None".
NotFoundIsError ==
    {"GetTx", "GetTxInfo", "GetTxAtBlockIndex", "GetOutputStatus"}

\* One of the failures C4 lists happened in invocation r: a malformed
\* argument, a client error, or an absent resource treated as an error.
ListedFailure(r) ==
    \/ ~ArgsWellFormed(cmd[r])
    \/ calls[r] # <<>> /\ ~remote[r].ok
    \/ /\ calls[r] # <<>> /\ cmd[r].name \in NotFoundIsError
       /\ remote[r] = Ok(None)

\* C4 as stated: every invocation terminates; its exit code is 0 exactly
\* when none of the listed failures occurred, and a non-zero exit comes with
\* a message on standard error.
C4_TerminatesWithExitCode ==
    /\ <>(\A r \in Runs : Done(r))
    /\ [](\A r \in Runs :
            Done(r) => /\ (exit[r] = 0) <=> ~ListedFailure(r)
                       /\ exit[r] # 0 => stderr[r] # <<>>)

\* C4, amended: an invocation terminates unless it is left waiting for
\* standard output for ever; its exit code is 0 exactly when nothing
\* failed, a refused write to standard output being a failure too, and a
\* non-zero exit comes with a message on standard error.
C4_ExitCodeUnlessBlocked ==
    /\ (<>(\A r \in Runs : Done(r))) \/ (<>[](\E r \in Runs : blocked[r]))
    /\ [](\A r \in Runs :
            Done(r) => /\ (exit[r] = 0) <=> ~(ListedFailure(r) \/ PrintFailed(r))
                       /\ exit[r] # 0 => stderr[r] # <<>>)

C4_Witness ==
    \E r \in Runs :
        /\ Done(r) /\ cmd[r].name = "GetHeight"
        /\ remote[r].ok /\ Len(calls[r]) = 1
        /\ PrintFailed(r) /\ exit[r] = 101
        /\ stdout[r] = Debug(remote[r].val)

\* C5: an invocation whose command line Cli::parse() accepted and that ends
\* on a malformed argument ends by main returning the error, never by a
\* panic.
C5_MalformedArgumentReturnsErr ==
    \A r \in Runs :
        Done(r) /\ CliAccepts(cmd[r]) /\ ~ArgsWellFormed(cmd[r]) =>
            status[r] = "err"

\* C6: two invocations with the same command line and the same client
\* response write the same lines to standard output and end the same way
\* (stated for the invocations that ran to Ok(()), so that standard output
\* accepted all they wrote).
C6_Deterministic ==
    \A r1, r2 \in Runs :
        (/\ Done(r1) /\ Done(r2)
         /\ status[r1] = "ok" /\ status[r2] = "ok"
         /\ cmd[r1] = cmd[r2] /\ remote[r1] = remote[r2]) =>
            stdout[r1] = stdout[r2] /\ exit[r1] = exit[r2]

NotCoinbase(tx) == ~IsCoinbase(tx)

\* The non-coinbase transaction ids of a block, one line each, in order.
NonCoinbaseIds(txdata) ==
    LET kept == SelectSeq(txdata, NotCoinbase) IN
    [i \in 1..Len(kept) |-> Debug(ComputeTxid(kept[i]))[1]]

\* Invocation r is a GetBlock with a valid hash whose client returns a block.
GetBlockReturned(r) ==
    /\ cmd[r].name = "GetBlock" /\ WellFormedHash(cmd[r].block_hash)
    /\ remote[r].ok /\ remote[r].val.some

\* C7 as stated: GetBlock has printed, when it ends, exactly the ids of the
\* non-coinbase transactions of the returned block, in block order, each
\* once: N-1 lines for a block with one coinbase.
C7_GetBlockPrintsNonCoinbase ==
    \A r \in Runs :
        GetBlockReturned(r) /\ Done(r) =>
            LET txdata == remote[r].val.val
                coinbases == {i \in 1..Len(txdata) : IsCoinbase(txdata[i])}
            IN  /\ stdout[r] = NonCoinbaseIds(txdata)
                /\ Cardinality(coinbases) = 1 => Len(stdout[r]) = Len(txdata) - 1

\* C7, amended: GetBlock prints the ids of the non-coinbase transactions in
\* block order and nothing else, never a coinbase id; it has printed all of
\* them (N-1 for one coinbase) when it ends with Ok(()), and a prefix of
\* them (the refused line too if the write on exit is accepted) when a
\* write to standard output was refused, the only other way it ends.
C7_GetBlockPrintsNonCoinbaseWhileAccepted ==
    \A r \in Runs :
        GetBlockReturned(r) =>
            LET txdata == remote[r].val.val
                coinbases == {i \in 1..Len(txdata) : IsCoinbase(txdata[i])}
            IN  /\ IsPrefix(stdout[r], NonCoinbaseIds(txdata))
                /\ \A i \in coinbases, j \in 1..Len(stdout[r]) :
                      stdout[r][j] # Debug(ComputeTxid(txdata[i]))[1]
                /\ Done(r) => status[r] = "ok" \/ PrintFailed(r)
                /\ Done(r) /\ status[r] = "ok" =>
                      /\ stdout[r] = NonCoinbaseIds(txdata)
                      /\ Cardinality(coinbases) = 1 =>
                            Len(stdout[r]) = Len(txdata) - 1

C7_Witness ==
    \E r \in Runs :
        /\ GetBlockReturned(r) /\ Done(r) /\ status[r] = "ok"
        /\ Len(remote[r].val.val) = 2
        /\ IsCoinbase(remote[r].val.val[1]) /\ ~IsCoinbase(remote[r].val.val[2])
        /\ Len(stdout[r]) = 1

\* The call GetScriptHashTxs makes for command line c.
ScriptHashCall(c) ==
    [op |-> "scripthash_txs",
     args |-> <<ScriptPubkey(AddressFromStr(c.address).val),
                IF c.last_seen.some
                THEN Some(TxidFromStr(c.last_seen.val).val) ELSE None>>]

\* C8 as stated: GetScriptHashTxs invokes scripthash_txs with no cursor
\* when last_seen is omitted and with the parsed last_seen otherwise, and
\* when that succeeds it prints the txid of every transaction of the page,
\* in the page's order.
C8_ScriptHashTxsCursorAndPage ==
    \A r \in Runs :
        (cmd[r].name = "GetScriptHashTxs" /\ ArgsWellFormed(cmd[r])) =>
            /\ calls[r] # <<>> => calls[r] = <<ScriptHashCall(cmd[r])>>
            /\ Done(r) => Len(calls[r]) = 1
            /\ Done(r) /\ remote[r].ok => stdout[r] = PageLines(remote[r].val)

\* C8, amended: the cursor is passed through as stated; the txids of the
\* page are printed in the page's order, all of them when the invocation
\* ends with Ok(()), and a prefix of them when a write to standard output
\* was refused.
C8_ScriptHashTxsCursorAndPageWhileAccepted ==
    \A r \in Runs :
        (cmd[r].name = "GetScriptHashTxs" /\ ArgsWellFormed(cmd[r])) =>
            /\ calls[r] # <<>> => calls[r] = <<ScriptHashCall(cmd[r])>>
            /\ Done(r) => Len(calls[r]) = 1
            /\ remote[r].ok => IsPrefix(stdout[r], PageLines(remote[r].val))
            /\ Done(r) /\ remote[r].ok =>
                  \/ status[r] = "ok" /\ stdout[r] = PageLines(remote[r].val)
                  \/ PrintFailed(r)

C8_Witness ==
    \E r \in Runs :
        /\ cmd[r].name = "GetScriptHashTxs" /\ Done(r) /\ status[r] = "ok"
        /\ cmd[r].last_seen.some
        /\ calls[r][1].args[2].some
        /\ Len(remote[r].val) = 2 /\ Len(stdout[r]) = 2
        /\ remote[r].val[1] # remote[r].val[2]

\* C9: Broadcast with decodable hex invokes broadcast once, with the decoded
\* transaction; on success it prints nothing and exits 0, on a client error
\* it ends with the error outcome.
C9_BroadcastOnceSilent ==
    \A r \in Runs :
        (/\ cmd[r].name = "Broadcast" /\ Done(r)
         /\ WellFormedTxHex(cmd[r].transaction_hex)) =>
            /\ calls[r] = <<[op |-> "broadcast",
                            args |-> <<DeserializeHex(cmd[r].transaction_hex).val>>]>>
            /\ remote[r].ok => stdout[r] = <<>> /\ status[r] = "ok" /\ exit[r] = 0
            /\ ~remote[r].ok => status[r] = "err" /\ exit[r] # 0

C9_Witness ==
    \E r \in Runs :
        /\ cmd[r].name = "Broadcast" /\ Done(r)
        /\ remote[r].ok /\ exit[r] = 0 /\ Len(calls[r]) = 1 /\ stdout[r] = <<>>

\* C10 as stated: standard output is written only after the client
\* operation returned successfully, and an invocation that wrote a line
\* ends with exit code 0.
C10_OutputOnlyOnSuccess ==
    \A r \in Runs :
        /\ stdout[r] # <<>> => Len(calls[r]) = 1 /\ remote[r].ok
        /\ Done(r) /\ stdout[r] # <<>> => exit[r] = 0

\* C10, amended: an invocation of a command writes standard output only
\* after its client operation returned successfully; one that ends on a
\* malformed argument, a client error or an absent result reported as an
\* error has written nothing; one that wrote anything ends with exit code
\* 0 or, when a write was refused, with the panic of println!.  Only help
\* and version requests write without a client operation, and they end
\* with exit code 0.
C10_OutputOnlyAfterCall ==
    \A r \in Runs :
        /\ Selected(cmd[r]) /\ stdout[r] # <<>> =>
              /\ Len(calls[r]) = 1 /\ remote[r].ok
              /\ Done(r) => exit[r] = 0 \/ PrintFailed(r)
        /\ ~Selected(cmd[r]) /\ stdout[r] # <<>> =>
              /\ calls[r] = <<>> /\ cmd[r].name \in {"Help", "Version"}
              /\ Done(r) => exit[r] = 0
        /\ Done(r) /\ ListedFailure(r) => stdout[r] = <<>>

C10_Witness ==
    \E r \in Runs :
        /\ cmd[r].name = "GetTx" /\ Done(r)
        /\ PrintFailed(r) /\ exit[r] = 101
        /\ Len(calls[r]) = 1 /\ remote[r].ok
        /\ Len(stdout[r]) = 2 /\ ~stdout[r][2].eol

====
